---- MODULE Spec2Model ----
(***************************************************************************)
(* Hero Wallet: session manager, persisted vault and the background        *)
(* request router with its pendingRequests / pendingUnlockRequests maps.   *)
(* One action per event-loop turn of the service worker: the code that     *)
(* runs between two awaits is one atomic step. Time is abstract: every     *)
(* request timer has the same 5 minute delay, so request timers fire in    *)
(* the order in which they were armed; the auto-lock timer fires at any    *)
(* moment after it was armed.                                              *)
(***************************************************************************)
EXTENDS Integers, FiniteSets, Sequences, TLC

\* ---------------------------------------------------------------- bounds
MaxTasks == 2          \* async calls (page requests, replays) in flight at once
MaxAccounts == 2        \* accounts in a stored state under observation
MaxPerms == 1           \* entries of origins in a stored state to migrate
MaxTtl == 4            \* longest auto-lock delay, in ticks of 10 seconds

\* ------------------------------------------------------ program constants
USER_REJECTED == 4001
UNAUTHORIZED == 4100
INVALID_PARAMS == -32602
UNRECOGNIZED_CHAIN == 4902
INTERNAL_ERROR == -32603
Grace == 3             \* extendLock(30000) when hidden: 30 s, in ticks of 10 s

\* ------------------------------------------------------------- universes
\* request ids are string | number; the page chooses them (args.id)
NumId(txt) == [type |-> "number", text |-> txt]
StrId(txt) == [type |-> "string", text |-> txt]
Ids == {NumId("1"), StrId("1")}
Origins == {"siteA"}
AllOrigins == {"siteA", "siteB", "unknown"}
ConnectRequests == {"eth_requestAccounts", "wallet_requestPermissions"}
PageMethods == {"eth_requestAccounts", "personal_sign", "eth_sendTransaction",
                "connect"}
AccountMethods == {"eth_accounts", "wallet_getPermissions"}
SignRequests == {"personal_sign", "eth_sign", "eth_signTypedData",
                 "eth_signTypedData_v3", "eth_signTypedData_v4"}
RevokeMethods == {"wallet_revokePermissions", "disconnect"}
Pins == {"1234", "9999"}
VaultPin == "1234"
Tasks == 1..MaxTasks
NoTimer == "none"      \* lockTimer = null

\* ------------------------------------------------------------- variables
VARIABLES
    session,    \* SessionManager: unlocked, pin, lockTimer
    vault,      \* chrome.storage.local hero_state
    pend,       \* pendingRequests
    unl,        \* pendingUnlockRequests
    tasks,      \* the async calls in flight: page requests and replays
    timers,     \* the armed request timers (setTimeout), oldest first
    out,        \* what the last step did that can be observed: responses
                \* posted to the page, handler effects, repeated settlements
    ltimers,    \* the armed auto-lock timeouts: the ticks each has left
    remembered, \* the remembered-PIN blob in storage ("none": absent)
    raw,        \* stored hero_state as loadState reads it, field by field
    loaded,     \* what the last loadState() call returned or raised
    crypt,      \* the last encryptJSON call and the decryptJSON of its result
    currentChainId, \* background.ts: let currentChainId
    NETWORKS,   \* background.ts: the keys of const NETWORKS
    cs          \* the content script of a page: its armed request timeouts,
                \* and what it has forwarded to the page for each request id

vars == <<session, vault, pend, unl, tasks, timers, out, ltimers, remembered,
          raw, loaded, crypt, currentChainId, NETWORKS, cs>>

\* ---------------------------------------------------------------- results
\* ctype: the JavaScript type of the error's code
Err(code, msg, by) ==
    [ok |-> FALSE, code |-> code, ctype |-> "number", msg |-> msg, by |-> by]
Ok(val, by) ==
    [ok |-> TRUE, code |-> 0, ctype |-> "number", msg |-> val, by |-> by]

\* a KeystoreError: its code is a string (here in msg), not a number
KeystoreErr(code, by) ==
    [ok |-> FALSE, code |-> 0, ctype |-> "string", msg |-> code, by |-> by]

\* ----------------------------------------------------------------- vault
NoPerm == "none"
EmptyOrigins == [o \in AllOrigins |-> NoPerm]
NoVault == [exists |-> FALSE, accounts |-> {}, origins |-> EmptyOrigins,
            mnemonic |-> FALSE]
NewVault(accts, mn) == [exists |-> TRUE, accounts |-> accts,
                        origins |-> EmptyOrigins, mnemonic |-> mn]

Address(acct) == IF acct = "evm" THEN "0xEVM" ELSE "SolPubKey"

\* getConnectedAccount: the allowed permission's account, only when it is EVM
getConnectedAccount(state, origin) ==
    IF ~state.exists THEN "none"
    ELSE IF state.origins[origin] = NoPerm THEN "none"
    ELSE IF state.origins[origin] = "evm" /\ "evm" \in state.accounts THEN "evm"
    ELSE "none"

\* handleSolanaSignAndSendTransaction / handleSolanaSignMessage: the allowed
\* permission's account, only when it is a Solana account
getConnectedSolanaAccount(state, origin) ==
    IF ~state.exists THEN "none"
    ELSE IF state.origins[origin] = NoPerm THEN "none"
    ELSE IF state.origins[origin] = "sol" /\ "sol" \in state.accounts THEN "sol"
    ELSE "none"

\* --------------------------------------------------------------- session
LockedSession == [unlocked |-> FALSE, pin |-> "none", lockTimer |-> NoTimer]

SessionUnlocked(sess) == sess.unlocked /\ sess.pin # "none"

isUnlocked == SessionUnlocked(session)

\* ----------------------------------------------------------------- tasks
\* sig: for a replay, whether the session was Unlocked when WALLET_UNLOCKED
\* arrived. pc: start (replay before its loadState returns), popup, prompt (awaiting a
\* window), await (promise registered), done (settled; the slot is kept while
\* its timer is armed or its approved handler still runs)
IdleTask == [kind |-> "none", req |-> "none", id |-> NumId("1"),
             origin |-> "siteA", pc |-> "idle", tkind |-> "none",
             apc |-> "none", snap |-> NoVault, sig |-> "none"]

EmptyMap == [k \in {} |-> 0]

FreeSlots == {t \in Tasks : tasks[t].kind = "none"}
NewSlot == CHOOSE t \in FreeSlots : \A u \in FreeSlots : t <= u

\* the method a request is registered under in pendingRequests
MethodOf(req) ==
    IF req \in ConnectRequests
    THEN "eth_requestAccounts"
    ELSE IF req = "connect" THEN "solana_connect"
    ELSE IF req = "eth_sign" THEN "personal_sign"
    ELSE req

\* no raw stored data under observation; nothing loaded yet
NoRaw == [present |-> FALSE]
NotLoaded == [result |-> "none"]

\* ------------------------------------------------------------ networks
\* const NETWORKS: the built-in table (three of its nine entries)
BuiltInNetworks == {"0x1", "0x89", "0x5"}

\* parseInt(chainId, 16) of the chain ids a page can send; of 'constructor'
\* it is the value of its leading hex digit c
ChainNumber(chainId) ==
    CASE chainId = "0x1" -> 1
      [] chainId = "0x89" -> 137
      [] chainId = "0x5" -> 5
      [] chainId = "0x64" -> 100
      [] chainId = "0xfa" -> 250
      [] chainId = "constructor" -> 12

\* utils/networks.ts: the chainId fields of EVM_NETWORKS
EvmNetworkChainIds == {1, 11155111, 56, 8453, 137, 42161, 10, 43114}

\* NetworkManager.getEvmNetwork(chainId: number): a network was found
getEvmNetwork(identifier) == identifier \in EvmNetworkChainIds

\* handleApprovedTransaction: the chain id of the transaction's parameters,
\* else the current chain's
TransactionChainId(txChainId, current) ==
    IF txChainId # "missing" THEN ChainNumber(txChainId) ELSE ChainNumber(current)

\* members every object inherits from Object.prototype: NETWORKS[key] finds
\* them although the table has no such entry
ObjectPrototypeKeys == {"constructor"}

\* chain ids a page can send
ChainIds == BuiltInNetworks \cup ObjectPrototypeKeys \cup {"0x64", "0xfa"}

\* ------------------------------------------------------------ CryptoUtils
NoCrypt == [call |-> "none"]

\* PINs handed to the crypto calls: two that deriveKey accepts, one that is
\* too short, the empty string
CryptoPins == {"1234", "5678", "12", ""}
MinPinLength == 4

\* what generateSalt and generateIV can return
Salts == {"salt1", "salt2"}
IVs == {"iv1", "iv2"}

\* values handed to encryptJSON: JSON values, and two that JSON cannot hold
JsonValues ==
    {[t |-> "null", v |-> ""], [t |-> "number", v |-> "0"],
     [t |-> "string", v |-> ""], [t |-> "string", v |-> "0xkey"],
     [t |-> "object", v |-> "0xkey"]}
Values ==
    JsonValues \cup {[t |-> "undefined", v |-> ""], [t |-> "number", v |-> "NaN"]}

\* JSON.stringify: the text as a sequence of tokens; undefined for undefined
\* (here the empty text, falsy like undefined); NaN is written as null
JSONstringify(x) ==
    CASE x.t = "undefined" -> <<>>
      [] x.t = "null" -> <<"null">>
      [] x.t = "number" -> IF x.v = "NaN" THEN <<"null">> ELSE <<x.v>>
      [] x.t = "string" -> <<"\"", x.v, "\"">>
      [] x.t = "object" -> <<"{", "\"", "privateKey", "\"", ":", "\"", x.v, "\"", "}">>

\* JSON.parse
JSONparse(text) ==
    CASE text = <<"null">> -> [t |-> "null", v |-> ""]
      [] Len(text) = 1 /\ text # <<"null">> -> [t |-> "number", v |-> text[1]]
      [] Len(text) = 3 -> [t |-> "string", v |-> text[2]]
      [] Len(text) = 9 -> [t |-> "object", v |-> text[7]]

CryptoFail(code) == [ok |-> FALSE, code |-> code]
CryptoOk(value) == [ok |-> TRUE, value |-> value]

\* Base64Utils.encode / decode
Base64Encode(bytes) == <<"base64", bytes>>
Base64Decode(b64) == b64[2]

\* KeyDerivation.deriveKey: PBKDF2 of the PIN and the salt
deriveKey(pin, salt) ==
    IF pin = "" THEN CryptoFail("INVALID_PIN")
    ELSE IF Len(pin) < MinPinLength THEN CryptoFail("PIN_TOO_SHORT")
    ELSE CryptoOk([pin |-> pin, salt |-> salt])

\* AESEncryption.encrypt: AES-GCM, the ciphertext carries the tag of the
\* key and the IV it was made with
AESEncrypt(data, key, iv) ==
    IF data = <<>> THEN CryptoFail("INVALID_DATA")
    ELSE CryptoOk([iv |-> Base64Encode(iv),
                   ciphertext |-> Base64Encode([key |-> key, iv |-> iv,
                                                data |-> data])])

\* a decrypt that does not check the tag
AESDecryptUnchecked(ivB64, ciphertextB64, key) ==
    CryptoOk(Base64Decode(ciphertextB64).data)

\* AESEncryption.decrypt: crypto.subtle.decrypt throws unless the tag fits
\* the key and the IV
AESDecrypt(ivB64, ciphertextB64, key) ==
    LET iv == Base64Decode(ivB64)
        ciphertext == Base64Decode(ciphertextB64)
    IN  IF ciphertext.key = key /\ ciphertext.iv = iv
        THEN CryptoOk(ciphertext.data)
        ELSE CryptoFail("DECRYPTION_FAILED")

\* CryptoUtils.encryptJSON, with the salt and the IV the generators return
encryptJSON(data, pin, salt, iv) ==
    LET jsonString == JSONstringify(data)
        key == deriveKey(pin, salt)
        encrypted == AESEncrypt(jsonString, key.value, iv)
    IN  IF jsonString = <<>> THEN CryptoFail("JSON_SERIALIZATION_FAILED")
        ELSE IF ~key.ok THEN key
        ELSE IF ~encrypted.ok THEN encrypted
        ELSE CryptoOk([iv |-> encrypted.value.iv, salt |-> Base64Encode(salt),
                       ciphertext |-> encrypted.value.ciphertext])

\* CryptoUtils.decryptJSON
decryptJSON(pin, ivB64, saltB64, ciphertextB64) ==
    LET salt == Base64Decode(saltB64)
        key == deriveKey(pin, salt)
        decryptedString == AESDecrypt(ivB64, ciphertextB64, key.value)
    IN  IF ~key.ok THEN key
        ELSE IF ~decryptedString.ok THEN decryptedString
        ELSE CryptoOk(JSONparse(decryptedString.value))

\* a caller encrypts the value x under the PIN
EncryptJSON(x, pin, salt, iv) ==
    /\ crypt.call = "none"
    /\ crypt' = [call |-> "encrypted", x |-> x, pin |-> pin,
                 box |-> encryptJSON(x, pin, salt, iv)]
    /\ UNCHANGED <<session, vault, pend, unl, tasks, timers, out, ltimers,
                   remembered, raw, loaded, currentChainId, NETWORKS, cs>>

\* a caller decrypts what encryptJSON returned, under a PIN
DecryptJSON(pin) ==
    /\ crypt.call = "encrypted"
    /\ crypt.box.ok
    /\ crypt' = [call |-> "decrypted", x |-> crypt.x, pin |-> crypt.pin,
                 box |-> crypt.box, with |-> pin,
                 opened |-> decryptJSON(pin, crypt.box.value.iv,
                                        crypt.box.value.salt,
                                        crypt.box.value.ciphertext)]
    /\ UNCHANGED <<session, vault, pend, unl, tasks, timers, out, ltimers,
                   remembered, raw, loaded, currentChainId, NETWORKS, cs>>

\* ---------------------------------------------------------- contentScript
\* request ids of a page
BridgeIds == {NumId("1"), NumId("2")}

\* responses forwarded for one id are counted up to this number
MaxForwarded == 2

\* HeroWalletMessageHandler when constructed: pendingRequests is empty;
\* nothing asked by the page, nothing forwarded to it
NewHandler ==
    [pendingRequests |-> {}, asked |-> {}, failed |-> {},
     forwarded |-> [i \in BridgeIds |-> 0]]

\* the module's variables when the worker starts
InitModule ==
    /\ cs = NewHandler
    /\ crypt = NoCrypt
    /\ currentChainId = "0x1"
    /\ NETWORKS = BuiltInNetworks

\* ------------------------------------------------ WalletStorage.loadState
CURRENT_VERSION == "1.0.0"

\* Date.now() at the calls under observation
Now == {2, 3}

\* a stored account, by which of its fields are there (and truthy), and its
\* createdAt (0: absent)
StoredAccounts ==
    [id : BOOLEAN, chain : BOOLEAN, address : BOOLEAN, enc : BOOLEAN,
     createdAt : {0, 1}]

RawAccounts == {a \in StoredAccounts : a.createdAt = 1}

\* an entry of origins: allowed (absent, true, false) and its two timestamps
\* (0: absent)
StoredPermissions ==
    [allowed : {"missing", "true", "false"}, connectedAt : {0, 1},
     lastUsed : {0, 1}]

RECURSIVE SeqsUpTo(_, _)
SeqsUpTo(S, n) ==
    IF n = 0 THEN {<<>>}
    ELSE SeqsUpTo(S, n - 1)
            \cup {Append(q, x) : q \in {r \in SeqsUpTo(S, n - 1) : Len(r) = n - 1},
                                 x \in S}

\* what may be found under hero_state: a value that is an object or not, its
\* origins (absent, a map, an array, a string), its accounts (absent, an
\* array, a map), createdAt (a number or a string), the version; no entries
\* in origins and no field the wallet does not know
RawStates ==
    {r \in [present : {TRUE}, kind : {"object", "string"},
            origins : {"missing", "map", "array", "string"},
            perms : {<<>>}, extra : {FALSE},
            accounts : {"missing", "array", "map"},
            list : SeqsUpTo(RawAccounts, MaxAccounts),
            ctype : {"number", "string"}, createdAt : {-1, 0, 1},
            version : {"missing", "0.9.0", CURRENT_VERSION}] :
        /\ r.accounts # "array" => r.list = <<>>
        /\ r.kind # "object"
              => /\ r.origins = "missing" /\ r.accounts = "missing"
                 /\ r.ctype = "string" /\ r.createdAt = 0
                 /\ r.version = "missing"}

\* WalletStorage.validateState: the error it throws, or "none"
validateState(s) ==
    IF s.kind # "object" THEN "INVALID_STATE"
    ELSE IF s.origins \notin {"map", "array"} THEN "INVALID_STATE"
    ELSE IF s.accounts # "array" THEN "INVALID_STATE"
    ELSE IF s.ctype # "number" \/ s.createdAt <= 0 THEN "INVALID_STATE"
    ELSE IF \E i \in 1..Len(s.list) :
               ~(s.list[i].id /\ s.list[i].chain /\ s.list[i].address)
    THEN "INVALID_ACCOUNT"
    ELSE "none"

\* migrateState: reading account.enc.iv of an account without enc throws
migrateRaises(s) ==
    IF \E i \in 1..Len(s.list) : ~s.list[i].enc THEN "TypeError" ELSE "none"

\* `x || Date.now()` for a timestamp
OrNow(x, now) == IF x = 0 THEN now ELSE x

\* a different migrateState, which stamps lastUsed anew each time
migrateStateRestamp(s, now) ==
    [s EXCEPT !.origins = "map",
              !.perms = [i \in 1..Len(s.perms) |->
                            [allowed |-> IF s.perms[i].allowed = "missing"
                                         THEN "false" ELSE s.perms[i].allowed,
                             connectedAt |-> OrNow(s.perms[i].connectedAt, now),
                             lastUsed |-> now]],
              !.list = [i \in 1..Len(s.list) |->
                           [s.list[i] EXCEPT !.enc = TRUE,
                                             !.createdAt = OrNow(@, now)]],
              !.extra = FALSE,
              !.version = CURRENT_VERSION]

\* migrateState: origins and accounts rebuilt field by field (allowed || false,
\* timestamps || Date.now()), mnemonic and createdAt copied, version set; any
\* other field of the old state is not copied
migrateState(s, now) ==
    [s EXCEPT !.origins = "map",
              !.perms = [i \in 1..Len(s.perms) |->
                            [allowed |-> IF s.perms[i].allowed = "missing"
                                         THEN "false" ELSE s.perms[i].allowed,
                             connectedAt |-> OrNow(s.perms[i].connectedAt, now),
                             lastUsed |-> OrNow(s.perms[i].lastUsed, now)]],
              !.list = [i \in 1..Len(s.list) |->
                           [s.list[i] EXCEPT !.enc = TRUE,
                                             !.createdAt = OrNow(@, now)]],
              !.extra = FALSE,
              !.version = CURRENT_VERSION]

\* the version is older than the current one ('0.9.0' < '1.0.0'), or absent
NeedsMigration(s) == s.version = "missing" \/ s.version = "0.9.0"

\* validateAndMigrateState: the state it returns, or the error thrown
validateAndMigrateState(s, now) ==
    IF validateState(s) # "none"
    THEN [result |-> "raise", code |-> validateState(s)]
    ELSE IF ~NeedsMigration(s) THEN [result |-> "state", state |-> s]
    ELSE IF migrateRaises(s) # "none"
    THEN [result |-> "raise", code |-> migrateRaises(s)]
    ELSE [result |-> "state", state |-> migrateState(s, now)]

\* loadState: null when nothing is stored; every error thrown on the way is
\* caught and replaced by STORAGE_LOAD_FAILED
loadState(r, now) ==
    IF ~r.present THEN [result |-> "null"]
    ELSE IF validateAndMigrateState(r, now).result = "raise"
    THEN [result |-> "raise", code |-> "STORAGE_LOAD_FAILED"]
    ELSE validateAndMigrateState(r, now)

\* saveState: validateState, then the state is written with the current
\* version; the error thrown is replaced by STORAGE_SAVE_FAILED
saveState(r, st) ==
    IF validateState(st) # "none" THEN r
    ELSE [st EXCEPT !.version = CURRENT_VERSION]

\* the worker starts: Locked, nothing pending, no wallet or an earlier one
InitWorker ==
    /\ session = LockedSession
    /\ vault \in {NoVault, NewVault({"evm", "sol"}, TRUE)}
    /\ pend = EmptyMap
    /\ unl = EmptyMap
    /\ tasks = [t \in Tasks |-> IdleTask]
    /\ timers = <<>>
    /\ out = {}
    /\ ltimers = <<>>

Init ==
    /\ InitWorker
    /\ remembered = "none"
    /\ raw = NoRaw
    /\ loaded = NotLoaded
    /\ InitModule

\* ------------------------------------------------- promises and awaiters
World(tk, pd, ul, tm, o) ==
    [tasks |-> tk, pend |-> pd, unl |-> ul, timers |-> tm, out |-> o]

Remove(f, k) == [x \in (DOMAIN f) \ {k} |-> f[x]]
Put(f, k, v) == [x \in (DOMAIN f) \cup {k} |-> IF x = k THEN v ELSE f[x]]

Event(kind, tk, res) ==
    [kind |-> kind, req |-> tk.req, id |-> tk.id, origin |-> tk.origin,
     tkind |-> tk.tkind, sig |-> tk.sig, ok |-> res.ok, code |-> res.code,
     ctype |-> res.ctype,
     msg |-> res.msg, by |-> res.by]

Emit(W, e) == [W EXCEPT !.out = @ \cup {e}]

\* resolve/reject of the promise task t awaits is invoked with result res.
\* A settled promise ignores it. Otherwise the awaiter's continuation runs in
\* the same turn (microtask): a page request answers the page
\* (respond(buildResult/buildError)); a replay hands the outcome to whatever
\* entry pendingRequests holds under its id, removes that entry, and removes
\* its pendingUnlockRequests entry.
RECURSIVE SettlePromise(_, _, _)
SettlePromise(W, t, res) ==
    LET tk == W.tasks[t]
    IN  IF tk.pc = "done"
        THEN Emit(W, Event("resettle", tk, res))
        ELSE LET W1 == [W EXCEPT !.tasks[t].pc = "done"]
             IN  IF tk.kind = "page"
                 THEN Emit(W1, Event("response", tk, res))
                 ELSE LET W2 == Emit([W1 EXCEPT !.unl = Remove(W.unl, tk.id)],
                                     Event("replayed", tk, res))
                      IN  IF tk.id \in DOMAIN W.pend
                          THEN SettlePromise(
                                   [W2 EXCEPT !.pend = Remove(W.pend, tk.id)],
                                   W.pend[tk.id].owner,
                                   [res EXCEPT !.by = "replay"])
                          ELSE W2

\* a settled task leaves its slot once no timer and no approved handler can
\* still reach it
InHandler(tk) == tk.apc \in {"load", "save", "sign", "baddecrypt"}

TimerArmed(tm, t) == \E i \in 1..Len(tm) : tm[i] = t

Collect(W) ==
    [W EXCEPT !.tasks =
        [t \in Tasks |->
            IF W.tasks[t].pc = "done" /\ ~InHandler(W.tasks[t])
               /\ ~TimerArmed(W.timers, t)
            THEN IdleTask ELSE W.tasks[t]]]

ApplyWorker(W) ==
    LET C == Collect(W)
    IN  /\ tasks' = C.tasks
        /\ pend' = C.pend
        /\ unl' = C.unl
        /\ timers' = C.timers
        /\ out' = C.out
        /\ UNCHANGED <<ltimers, remembered, raw, loaded, crypt, currentChainId,
                       NETWORKS>>

\* a step of the worker, which no content script takes part in
Apply(W) == ApplyWorker(W) /\ UNCHANGED cs

\* the state an action starts from; what the previous step emitted is gone
Here == World(tasks, pend, unl, timers, {})

\* new Promise(...): pendingRequests.set(id, ...) and setTimeout(5 minutes)
Register(W, t, tkind) ==
    [W EXCEPT !.pend = Put(W.pend, W.tasks[t].id,
                           [method |-> MethodOf(W.tasks[t].req),
                            origin |-> W.tasks[t].origin, owner |-> t]),
              !.tasks[t].pc = "await",
              !.tasks[t].tkind = tkind,
              !.timers = Append(W.timers, t)]

\* ------------------------------------------------------- page requests
NewTask(kind, req, id, origin) ==
    [IdleTask EXCEPT !.kind = kind, !.req = req, !.id = id, !.origin = origin,
                     !.pc = "start"]

\* a different handler, which looks at the lock before it looks for a stored
\* vault: without a vault it queues the request for unlock
EthRequestAccountsLockFirst(W, t, state, unlocked) ==
    LET tk == W.tasks[t]
    IN  IF ~unlocked
        THEN [W EXCEPT !.unl = Put(W.unl, tk.id,
                                   [origin |-> tk.origin,
                                    method |-> "eth_requestAccounts"]),
                       !.tasks[t].pc = "popup"]
        ELSE IF ~state.exists
        THEN SettlePromise(W, t, Err(UNAUTHORIZED, "needs_setup", "direct"))
        ELSE IF getConnectedAccount(state, tk.origin) # "none"
        THEN SettlePromise(W, t, Ok(Address("evm"), "direct"))
        ELSE [W EXCEPT !.tasks[t].pc = "prompt"]

\* handleEthRequestAccounts after `await loadState()`, up to its next await
EthRequestAccountsBody(W, t, state, unlocked) ==
    LET tk == W.tasks[t]
    IN  IF ~state.exists
        THEN \* popup opened for setup, then throw 4100
             SettlePromise(W, t, Err(UNAUTHORIZED, "needs_setup", "direct"))
        ELSE IF ~unlocked
        THEN \* pendingUnlockRequests.set(id, ...); await chrome.windows.create
             [W EXCEPT !.unl = Put(W.unl, tk.id,
                                   [origin |-> tk.origin,
                                    method |-> "eth_requestAccounts"]),
                       !.tasks[t].pc = "popup"]
        ELSE IF getConnectedAccount(state, tk.origin) # "none"
        THEN SettlePromise(W, t, Ok(Address("evm"), "direct"))
        ELSE \* await openApprovalWindow(id, 'eth_requestAccounts', {}, origin)
             [W EXCEPT !.tasks[t].pc = "prompt"]

\* sign handlers that do not look at the connection of the origin
SignBodyAnyOrigin(W, t, state, unlocked, valid) ==
    IF ~unlocked
    THEN SettlePromise(W, t, Err(UNAUTHORIZED, "locked", "direct"))
    ELSE IF ~valid
    THEN SettlePromise(W, t, Err(INVALID_PARAMS, "invalid_params", "direct"))
    ELSE [W EXCEPT !.tasks[t].pc = "prompt"]

\* handlePersonalSign / handleSignTypedData / handleSendTransaction up to
\* `await openApprovalWindow`
SignBody(W, t, state, unlocked, valid) ==
    LET tk == W.tasks[t]
    IN  IF ~unlocked
        THEN SettlePromise(W, t, Err(UNAUTHORIZED, "locked", "direct"))
        ELSE IF getConnectedAccount(state, tk.origin) = "none"
        THEN SettlePromise(W, t, Err(UNAUTHORIZED, "not_connected", "direct"))
        ELSE IF ~valid
        THEN SettlePromise(W, t, Err(INVALID_PARAMS, "invalid_params", "direct"))
        ELSE [W EXCEPT !.tasks[t].pc = "prompt"]

\* handleSolanaConnect up to `await openApprovalWindow`
SolanaConnectBody(W, t, state, unlocked) ==
    LET tk == W.tasks[t]
    IN  IF ~state.exists
        THEN SettlePromise(W, t, Err(UNAUTHORIZED, "not_initialized", "direct"))
        ELSE IF ~unlocked
        THEN SettlePromise(W, t, Err(UNAUTHORIZED, "locked", "direct"))
        ELSE IF "sol" \notin state.accounts
        THEN SettlePromise(W, t, Err(UNAUTHORIZED, "no_solana_account", "direct"))
        ELSE IF state.origins[tk.origin] = "sol"
        THEN SettlePromise(W, t, Ok(Address("sol"), "direct"))
        ELSE [W EXCEPT !.tasks[t].pc = "prompt"]

\* handleEthAccounts, and the account list of wallet_getPermissions: the
\* connected account's address, or the empty list
handleEthAccounts(W, t, state, unlocked) ==
    SettlePromise(W, t,
        Ok(IF getConnectedAccount(state, W.tasks[t].origin) = "none"
           THEN "empty" ELSE Address("evm"), "direct"))

\* wallet_revokePermissions / handleSolanaDisconnect after `await loadState()`:
\* with an entry for the origin the handler deletes it from the loaded state
\* and awaits saveState; otherwise it answers at once
RevokeBody(W, t, state, valid) ==
    LET tk == W.tasks[t]
    IN  IF ~valid
        THEN SettlePromise(W, t, Ok("nothing_to_revoke", "direct"))
        ELSE IF ~state.exists
        THEN SettlePromise(W, t, Ok("nothing_to_revoke", "direct"))
        ELSE IF state.origins[tk.origin] = NoPerm
        THEN SettlePromise(W, t, Ok("nothing_to_revoke", "direct"))
        ELSE [W EXCEPT !.tasks[t].pc = "revoke", !.tasks[t].snap = state]

\* processPageRequest: the switch on the method
Dispatch(W, t, state, unlocked, valid) ==
    LET req == W.tasks[t].req
    IN  IF req \in ConnectRequests
        THEN EthRequestAccountsBody(W, t, state, unlocked)
        ELSE IF req \in SignRequests \cup {"eth_sendTransaction"}
        THEN SignBody(W, t, state, unlocked, valid)
        ELSE IF req \in AccountMethods
        THEN handleEthAccounts(W, t, state, unlocked)
        ELSE IF req \in RevokeMethods
        THEN RevokeBody(W, t, state, valid)
        ELSE SolanaConnectBody(W, t, state, unlocked)

\* a PAGE_REQUEST arrives on the port
PageRequest(req, id, origin, valid) ==
    /\ FreeSlots # {}
    /\ LET t == NewSlot
           W == [Here EXCEPT !.tasks[t] = NewTask("page", req, id, origin)]
       IN  Apply(Dispatch(W, t, vault, isUnlocked, valid))
    /\ UNCHANGED <<session, vault>>

\* contentScript handleInpageMessage: the message it sends for a request of
\* the page at `site`; it has the page's url and no origin field
BackgroundMessage(site, request) ==
    [kind |-> "PAGE_REQUEST", from |-> "content-script", url |-> site,
     origin |-> "missing", request |-> request]

\* processPageRequest: const origin = message.origin || 'unknown'
MessageOrigin(message) ==
    IF message.origin = "missing" THEN "unknown" ELSE message.origin

\* a page at `site` calls the provider: the content script passes the
\* request on and the router processes the message
InpageRequest(req, id, site, valid) ==
    LET message == BackgroundMessage(site, [method |-> req, id |-> id])
    IN  PageRequest(message.request.method, message.request.id,
                    MessageOrigin(message), valid)

\* forwardToInpage: window.postMessage of a response to the page
Forwarded(id, res) ==
    Event("forwarded", NewTask("page", "none", id, "unknown"), res)

\* the responses of the worker that the last step posted on the port
Posted == {e \in out : e.kind = "response"}

\* the port has nothing for the content script
Delivered == Posted = {}

\* one more response forwarded for the id
CountForwarded(f, ids) ==
    [i \in BridgeIds |->
        IF i \in ids /\ f[i] < MaxForwarded THEN f[i] + 1 ELSE f[i]]

\* contentScript handleInpageMessage for a request of the page at `site`
\* with an id the page has not used: setupRequestTimeout(id), then the message
\* goes over the port and the worker's processPageRequest takes it up
HandleInpageMessage(req, id, site, valid) ==
    /\ Delivered
    /\ id \notin cs.asked
    /\ FreeSlots # {}
    /\ cs' = [cs EXCEPT !.pendingRequests = @ \cup {id}, !.asked = @ \cup {id}]
    /\ LET message == BackgroundMessage(site, [method |-> req, id |-> id])
           t == NewSlot
           W == [Here EXCEPT !.tasks[t] =
                    NewTask("page", message.request.method, message.request.id,
                            MessageOrigin(message))]
       IN  ApplyWorker(Dispatch(W, t, vault, isUnlocked, valid))
    /\ UNCHANGED <<session, vault>>

\* contentScript handleBackgroundResponse for what the worker posted:
\* clearRequestTimeout(id), then forwardToInpage(message) whether or not a
\* request with that id is still waiting
HandleBackgroundResponse ==
    /\ ~Delivered
    /\ LET ids == {e.id : e \in Posted}
       IN  /\ cs' = [cs EXCEPT !.pendingRequests = @ \ ids,
                               !.forwarded = CountForwarded(@, ids)]
           /\ out' = {Forwarded(e.id, [ok |-> e.ok, code |-> e.code,
                                        ctype |-> e.ctype, msg |-> e.msg,
                                        by |-> "background"]) : e \in Posted}
    /\ UNCHANGED <<session, vault, pend, unl, tasks, timers, ltimers,
                   remembered, raw, loaded, crypt, currentChainId, NETWORKS>>

\* contentScript setupRequestTimeout: the 30 second timer of the id fires:
\* sendErrorResponse(id, -32603, 'Request timeout'), the timer is forgotten
RequestTimeout(id) ==
    /\ Delivered
    /\ id \in cs.pendingRequests
    /\ cs' = [cs EXCEPT !.pendingRequests = @ \ {id},
                        !.failed = @ \cup {id},
                        !.forwarded = CountForwarded(@, {id})]
    /\ out' = {Forwarded(id, Err(INTERNAL_ERROR, "request_timeout", "content_script"))}
    /\ UNCHANGED <<session, vault, pend, unl, tasks, timers, ltimers,
                   remembered, raw, loaded, crypt, currentChainId, NETWORKS>>

\* NETWORKS[chainId] is truthy: the table has the key, or every object has
NetworkFound(chainId) == chainId \in NETWORKS \cup ObjectPrototypeKeys

\* respond(...) of a request that is answered without an await
Answer(req, id, origin, res) ==
    {Event("response", NewTask("page", req, id, origin), res)}

\* processPageRequest, case 'wallet_switchEthereumChain'; chainId "missing":
\* no params, NETWORKS[undefined] finds nothing
SwitchEthereumChain(id, origin, chainId) ==
    /\ IF NetworkFound(chainId)
       THEN /\ currentChainId' = chainId
            /\ out' = Answer("wallet_switchEthereumChain", id, origin,
                              Ok("null", "direct"))
       ELSE /\ UNCHANGED currentChainId
            /\ out' = Answer("wallet_switchEthereumChain", id, origin,
                              Err(UNRECOGNIZED_CHAIN, "unrecognized_chain", "direct"))
    /\ UNCHANGED <<session, vault, pend, unl, tasks, timers, ltimers,
                   remembered, raw, loaded, crypt, NETWORKS, cs>>

\* processPageRequest, case 'wallet_addEthereumChain': the chain is put in
\* the table when the parameters have a chainId and a first rpc url
AddEthereumChain(id, origin, chainId, rpcUrl) ==
    /\ NETWORKS' = IF chainId # "missing" /\ rpcUrl
                   THEN NETWORKS \cup {chainId} ELSE NETWORKS
    /\ out' = Answer("wallet_addEthereumChain", id, origin, Ok("null", "direct"))
    /\ UNCHANGED <<session, vault, pend, unl, tasks, timers, ltimers,
                   remembered, raw, loaded, crypt, currentChainId, cs>>

\* processPageRequest, case 'eth_chainId'
EthChainId(id, origin) ==
    /\ out' = Answer("eth_chainId", id, origin, Ok(currentChainId, "direct"))
    /\ UNCHANGED <<session, vault, pend, unl, tasks, timers, ltimers,
                   remembered, raw, loaded, crypt, currentChainId, NETWORKS, cs>>

\* processPageRequest when the handler's loadState throws KeystoreError:
\* getConnectedAccount catches it and returns null; the permission methods
\* with a catch of their own answer -32603; from handleEthRequestAccounts,
\* handleSolanaConnect and handleSolanaDisconnect it reaches the catch of
\* processPageRequest, buildError(id, error.code || -32603, ...)
DispatchLoadFails(W, t, unlocked) ==
    LET req == W.tasks[t].req
    IN  IF req \in SignRequests \cup {"eth_sendTransaction"}
        THEN SettlePromise(W, t,
                 Err(UNAUTHORIZED, IF unlocked THEN "not_connected" ELSE "locked",
                     "direct"))
        ELSE IF req = "eth_accounts"
        THEN SettlePromise(W, t, Ok("empty", "direct"))
        ELSE IF req \in {"wallet_getPermissions", "wallet_revokePermissions"}
        THEN SettlePromise(W, t, Err(INTERNAL_ERROR, "load_failed", "direct"))
        ELSE SettlePromise(W, t, KeystoreErr("STORAGE_LOAD_FAILED", "direct"))

\* a page request arrives while the stored state cannot be loaded
PageRequestLoadFails(req, id, origin) ==
    /\ FreeSlots # {}
    /\ LET t == NewSlot
           W == [Here EXCEPT !.tasks[t] = NewTask("page", req, id, origin)]
       IN  Apply(DispatchLoadFails(W, t, isUnlocked))
    /\ UNCHANGED <<session, vault>>

\* locked branch: chrome.windows.create returned (or failed, which is only
\* logged); the promise is created and registered
PopupOpened(t) ==
    /\ tasks[t].pc = "popup"
    /\ Apply(Register(Here, t, "locked"))
    /\ UNCHANGED <<session, vault>>

\* openApprovalWindow returned: the promise is created and registered; or
\* chrome.windows.create failed and the handler throws
PromptOpened(t, created) ==
    /\ tasks[t].pc = "prompt"
    /\ IF created
       THEN Apply(Register(Here, t, "normal"))
       ELSE Apply(SettlePromise(Here, t, Err(INTERNAL_ERROR, "window_failed", "direct")))
    /\ UNCHANGED <<session, vault>>

\* the revoke's saveState: the loaded state without the origin's entry replaces
\* the stored state; then respond
RevokeFinish(t) ==
    /\ tasks[t].pc = "revoke"
    /\ vault' = [tasks[t].snap EXCEPT !.origins[tasks[t].origin] = NoPerm]
    /\ Apply(SettlePromise([Here EXCEPT !.tasks[t].snap = NoVault], t,
                           Ok("revoked", "handler")))
    /\ UNCHANGED session

\* ------------------------------------------------ WALLET_UNLOCKED replay
RECURSIVE SpawnReplays(_, _, _, _)
SpawnReplays(tk, ul, entries, unlocked) ==
    IF entries = {} THEN tk
    ELSE LET k == CHOOSE x \in entries : TRUE
             free == {t \in Tasks : tk[t].kind = "none"}
             slot == CHOOSE t \in free : \A u \in free : t <= u
         IN  SpawnReplays(
                 [tk EXCEPT ![slot] =
                     [NewTask("replay", "eth_requestAccounts", k, ul[k].origin)
                         EXCEPT !.sig = IF unlocked THEN "unlocked" ELSE "locked"]],
                 ul, entries \ {k}, unlocked)

\* chrome.runtime.onMessage, kind WALLET_UNLOCKED: one async replay per entry of
\* pendingUnlockRequests, each calling handleEthRequestAccounts(origin, requestId)
WalletUnlocked ==
    /\ Cardinality(FreeSlots) >= Cardinality(DOMAIN unl)
    /\ Apply([Here EXCEPT !.tasks = SpawnReplays(tasks, unl, DOMAIN unl,
                                                  isUnlocked)])
    /\ UNCHANGED <<session, vault>>

\* the replay's loadState returned: handleEthRequestAccounts runs on
ReplayLoad(r) ==
    /\ tasks[r].kind = "replay"
    /\ tasks[r].pc = "start"
    /\ Apply(EthRequestAccountsBody(Here, r, vault, isUnlocked))
    /\ UNCHANGED <<session, vault>>

\* ---------------------------------------------------- APPROVAL_RESPONSE
IsNumericText(txt) == txt \in {"0", "1", "2", "3", "4", "5", "6", "7", "8", "9"}

NoKey == [type |-> "none", text |-> ""]

\* a different lookup, which falls back to any outstanding entry
LookupAnyKey(pd, rid) ==
    IF rid \in DOMAIN pd THEN rid
    ELSE IF DOMAIN pd # {} THEN CHOOSE k \in DOMAIN pd : TRUE
    ELSE NoKey

\* pendingRequests.get(requestId), then the number form of a numeric string,
\* then the string form of a number: the key of the entry found, or NoKey
LookupKey(pd, rid) ==
    IF rid \in DOMAIN pd THEN rid
    ELSE IF rid.type = "string" /\ IsNumericText(rid.text)
            /\ NumId(rid.text) \in DOMAIN pd
    THEN NumId(rid.text)
    ELSE IF rid.type = "number" /\ StrId(rid.text) \in DOMAIN pd
    THEN StrId(rid.text)
    ELSE NoKey

HandledMethods == {"eth_requestAccounts", "solana_connect", "personal_sign",
                   "eth_sign", "eth_signTypedData_v3", "eth_signTypedData_v4",
                   "eth_sendTransaction"}

\* sendResponse(...) of the APPROVAL_RESPONSE listener
Reply(rid, found) ==
    [kind |-> "approval_reply", req |-> "none", id |-> rid, origin |-> "none",
     tkind |-> "none", sig |-> "none", ok |-> found, code |-> 0,
     ctype |-> "number",
     msg |-> IF found THEN "ok" ELSE "request_not_found", by |-> "approval"]

\* the synchronous part of the APPROVAL_RESPONSE listener
ApprovalBody(W, rid, approved, err) ==
    LET k == LookupKey(W.pend, rid)
    IN  IF k = NoKey THEN Emit(W, Reply(rid, FALSE))
        ELSE LET e == W.pend[k]
                 W1 == Emit([W EXCEPT !.pend = Remove(W.pend, k)], Reply(rid, TRUE))
             IN  IF approved
                 THEN IF e.method \in HandledMethods
                      THEN [W1 EXCEPT !.tasks[e.owner].apc = "load"]
                      ELSE SettlePromise(W1, e.owner, Ok("ui_result", "approval"))
                 ELSE SettlePromise(W1, e.owner,
                                    IF err = 0
                                    THEN Err(USER_REJECTED, "user_rejected", "approval")
                                    ELSE Err(err, "ui_error", "approval"))

UiErrors == {0, UNAUTHORIZED}

ApprovalResponse(rid, approved, err) ==
    /\ Apply(ApprovalBody(Here, rid, approved, err))
    /\ UNCHANGED <<session, vault>>

\* the approved handler after its `await loadState()`
ApprovedLoadBody(W, t, state, sess) ==
    LET m == MethodOf(W.tasks[t].req)
        fail(msg) == SettlePromise([W EXCEPT !.tasks[t].apc = "done"], t,
                                   Err(INTERNAL_ERROR, msg, "handler"))
    IN  IF m = "eth_requestAccounts"
        THEN IF ~state.exists THEN fail("not_initialized")
             ELSE IF "evm" \notin state.accounts THEN fail("no_evm_account")
             ELSE [W EXCEPT !.tasks[t].apc = "save", !.tasks[t].snap = state]
        ELSE IF m = "solana_connect"
        THEN IF state.exists
             THEN [W EXCEPT !.tasks[t].apc = "save", !.tasks[t].snap = state]
             ELSE SettlePromise([W EXCEPT !.tasks[t].apc = "done"], t,
                                Ok(Address("sol"), "approval"))
        ELSE \* personal_sign, eth_sendTransaction: decryptAccount -> getSessionPin
             IF ~state.exists THEN fail("not_initialized")
             ELSE IF "evm" \notin state.accounts THEN fail("account_not_found")
             ELSE IF ~SessionUnlocked(sess) THEN fail("wallet_locked")
             ELSE IF sess.pin # VaultPin
             THEN [W EXCEPT !.tasks[t].apc = "baddecrypt"]
             ELSE [W EXCEPT !.tasks[t].apc = "sign"]

ApprovedLoad(t) ==
    /\ tasks[t].apc = "load"
    /\ Apply(ApprovedLoadBody(Here, t, vault, session))
    /\ UNCHANGED <<session, vault>>

Granted(m) == IF m = "solana_connect" THEN "sol" ELSE "evm"

\* what the approved handler did, and whether the session was unlocked then
Effect(tk, unlocked) ==
    [kind |-> "effect", req |-> tk.req, id |-> tk.id, origin |-> tk.origin,
     tkind |-> tk.tkind, sig |-> tk.sig, ok |-> unlocked, code |-> 0,
     ctype |-> "number",
     msg |-> IF tk.apc = "save" THEN "grant"
             ELSE IF tk.req = "eth_sendTransaction" THEN "send" ELSE "sign",
     by |-> "handler"]

\* the approved handler's last await returns: saveState of the whole updated
\* state, or decryptJSON and the adapter call; then pending.resolve
ApprovedFinish(t, ok) ==
    /\ tasks[t].apc \in {"save", "sign", "baddecrypt"}
    /\ LET tk == tasks[t]
           W == [Here EXCEPT !.tasks[t].apc = "done", !.tasks[t].snap = NoVault]
       IN  IF ~ok \/ tk.apc = "baddecrypt"
           THEN /\ Apply(SettlePromise(W, t, Err(INTERNAL_ERROR, "handler_failed",
                                                   "handler")))
                /\ UNCHANGED vault
           ELSE /\ vault' = IF tk.apc = "save"
                            THEN [tk.snap EXCEPT
                                    !.origins[tk.origin] = Granted(MethodOf(tk.req))]
                            ELSE vault
                /\ Apply(SettlePromise(
                       Emit(W, Effect(tk, isUnlocked)), t,
                       Ok(IF tk.apc = "save" THEN Address(Granted(MethodOf(tk.req)))
                          ELSE "signature", "approval")))
    /\ UNCHANGED session

\* handleApprovedTransaction after decryptAccount, for a transaction whose
\* parameters have the chain id txChainId or none: the network is looked up,
\* 'Unsupported chain ID' is thrown without one, else the adapter sends
ApprovedTransaction(t, txChainId, sent) ==
    /\ tasks[t].apc = "sign"
    /\ tasks[t].req = "eth_sendTransaction"
    /\ IF getEvmNetwork(TransactionChainId(txChainId, currentChainId))
       THEN ApprovedFinish(t, sent)
       ELSE /\ Apply(SettlePromise(
                   [Here EXCEPT !.tasks[t].apc = "done", !.tasks[t].snap = NoVault],
                   t, Err(INTERNAL_ERROR,
                          IF txChainId = "missing" THEN "unsupported_current_chain"
                          ELSE "unsupported_chain", "handler")))
            /\ UNCHANGED <<session, vault>>

\* --------------------------------------------------------------- timers
\* the setTimeout callback of the promise task t created
TimeoutBody(W, t) ==
    LET tk == W.tasks[t]
    IN  IF tk.id \notin DOMAIN W.pend THEN W
        ELSE IF tk.tkind = "locked"
        THEN SettlePromise(
                 [W EXCEPT !.pend = Remove(W.pend, tk.id),
                           !.unl = Remove(W.unl, tk.id)],
                 t, Err(UNAUTHORIZED, "timed_out", "timeout"))
        ELSE SettlePromise(
                 [W EXCEPT !.pend = Remove(W.pend, tk.id)],
                 t, Err(USER_REJECTED, "user_rejected", "timeout"))

\* the oldest armed request timer fires
TimeoutFire ==
    /\ timers # <<>>
    /\ Apply(TimeoutBody([Here EXCEPT !.timers = Tail(timers)], Head(timers)))
    /\ UNCHANGED <<session, vault>>

\* -------------------------------------------------------------- session
\* SessionManager.unlock raises INVALID_PIN when the stored state has a
\* mnemonic that the pin does not decrypt; without a mnemonic nothing is
\* checked
unlockRaises(state, pin) ==
    IF state.exists /\ state.mnemonic /\ pin # VaultPin THEN "INVALID_PIN"
    ELSE "none"

\* SessionManager.unlock: the session after unlock(pin, ttlMs), with the lock
\* timer set; unchanged when it throws INVALID_PIN
unlock(sess, state, pin) ==
    IF state.exists /\ state.mnemonic /\ pin # VaultPin THEN sess
    ELSE [unlocked |-> TRUE, pin |-> pin, lockTimer |-> "armed"]

\* SessionManager.lockNow
lockNow(sess) == [unlocked |-> FALSE, pin |-> "none", lockTimer |-> NoTimer]

\* clearTimeout(this.lockTimer): the handle is the timeout armed last
clearLockTimer(sess, lt) ==
    IF sess.lockTimer = "armed" /\ lt # <<>> THEN SubSeq(lt, 1, Len(lt) - 1)
    ELSE lt

\* a different setLockTimer, which arms a timeout without clearing the old one
setLockTimerKeepOld(sess, lt, ttl) == Append(lt, ttl)

\* SessionManager.setLockTimer: clear the old timeout, arm a new one
setLockTimer(sess, lt, ttl) == Append(clearLockTimer(sess, lt), ttl)

Quiet ==
    /\ UNCHANGED <<pend, unl, tasks, timers, remembered, raw, loaded, crypt,
                   currentChainId, NETWORKS, cs>>
    /\ out' = {}

\* unlockWithPin(pin, ttl)
Unlock(pin, ttl) ==
    /\ session' = unlock(session, vault, pin)
    /\ ltimers' = IF unlockRaises(vault, pin) = "none"
                  THEN setLockTimer(session, ltimers, ttl)
                  ELSE ltimers
    /\ UNCHANGED vault
    /\ Quiet

\* explicit lock
LockNow ==
    /\ session' = lockNow(session)
    /\ ltimers' = clearLockTimer(session, ltimers)
    /\ UNCHANGED vault
    /\ Quiet

RemoveAt(q, i) == [j \in 1..(Len(q) - 1) |-> IF j < i THEN q[j] ELSE q[j + 1]]

\* an auto-lock timeout that is due fires: lockNow()
AutoLockAt(i) ==
    /\ i \in 1..Len(ltimers)
    /\ ltimers[i] = 0
    /\ session' = lockNow(session)
    /\ ltimers' = IF i = Len(ltimers) THEN RemoveAt(ltimers, i)
                  ELSE clearLockTimer(session, RemoveAt(ltimers, i))
    /\ UNCHANGED vault
    /\ Quiet

AutoLock == \E i \in 1..Len(ltimers) : AutoLockAt(i)

\* chrome.runtime.onSuspend
Suspend ==
    /\ session' = lockNow(session)
    /\ ltimers' = clearLockTimer(session, ltimers)
    /\ UNCHANGED vault
    /\ Quiet

\* ten seconds pass with no auto-lock timeout due
Tick ==
    /\ ltimers # <<>>
    /\ \A i \in 1..Len(ltimers) : ltimers[i] > 0
    /\ ltimers' = [i \in 1..Len(ltimers) |-> ltimers[i] - 1]
    /\ UNCHANGED <<session, vault>>
    /\ Quiet

\* something a session or storage operation did, as an observable event
Note(kind, ok, msg) ==
    [kind |-> kind, req |-> "none", id |-> NoKey, origin |-> "none",
     tkind |-> "none", sig |-> "none", ok |-> ok, code |-> 0,
     ctype |-> "number", msg |-> msg,
     by |-> "session"]

StorageQuiet ==
    UNCHANGED <<pend, unl, tasks, timers, raw, loaded, crypt, currentChainId,
                NETWORKS, cs>>

\* SessionManager.extendLock
extendLock(sess, lt, ttl) ==
    IF SessionUnlocked(sess) THEN setLockTimer(sess, lt, ttl) ELSE lt

\* document visibilitychange with document.hidden: extendLock(30000)
VisibilityHidden ==
    /\ ltimers' = extendLock(session, ltimers, Grace)
    /\ out' = {Note("hidden", isUnlocked, "extendLock")}
    /\ UNCHANGED <<session, vault, remembered>>
    /\ StorageQuiet

\* background start: attemptAutoUnlock with the remembered PIN; a failure is
\* only logged
AttemptAutoUnlock(ttl) ==
    /\ IF isUnlocked \/ remembered = "none"
       THEN UNCHANGED <<session, ltimers>> /\ out' = {}
       ELSE /\ session' = unlock(session, vault, remembered)
            /\ ltimers' = IF unlockRaises(vault, remembered) = "none"
                          THEN setLockTimer(session, ltimers, ttl)
                          ELSE ltimers
            /\ out' = {Note("auto_unlock",
                            unlockRaises(vault, remembered) = "none",
                            unlockRaises(vault, remembered))}
    /\ UNCHANGED <<vault, remembered>>
    /\ StorageQuiet

\* popup initialize: with accounts stored and a remembered PIN, unlock with
\* it; a failure clears the remembered PIN
PopupInitialize(ttl) ==
    /\ IF ~vault.exists \/ isUnlocked \/ remembered = "none"
       THEN UNCHANGED <<session, ltimers, remembered>> /\ out' = {}
       ELSE /\ session' = unlock(session, vault, remembered)
            /\ ltimers' = IF unlockRaises(vault, remembered) = "none"
                          THEN setLockTimer(session, ltimers, ttl)
                          ELSE ltimers
            /\ remembered' = IF unlockRaises(vault, remembered) = "none"
                             THEN remembered ELSE "none"
            /\ out' = {Note("popup_unlock",
                            unlockRaises(vault, remembered) = "none",
                            unlockRaises(vault, remembered))}
    /\ UNCHANGED vault
    /\ StorageQuiet

\* popup handleUnlock: unlockWithPin(pin), then store or clear the remembered
\* PIN as the checkbox says
PopupUnlock(pin, rememberPin, ttl) ==
    /\ session' = unlock(session, vault, pin)
    /\ IF unlockRaises(vault, pin) = "none"
       THEN /\ ltimers' = setLockTimer(session, ltimers, ttl)
            /\ remembered' = IF rememberPin THEN pin ELSE "none"
       ELSE UNCHANGED <<ltimers, remembered>>
    /\ out' = {Note("unlock", unlockRaises(vault, pin) = "none",
                    unlockRaises(vault, pin))}
    /\ UNCHANGED vault
    /\ StorageQuiet

\* keystore clearAllData: lockNow(), then WalletStorage.clearAll()
ClearAllData ==
    /\ session' = lockNow(session)
    /\ ltimers' = clearLockTimer(session, ltimers)
    /\ vault' = NoVault
    /\ out' = {Note("cleared", TRUE, "clearAllData")}
    /\ UNCHANGED remembered
    /\ StorageQuiet

\* settings page handleClearAll: chrome.storage.local.clear(); the remembered
\* PIN goes with it if that is where it is kept
SettingsClearAll ==
    /\ vault' = NoVault
    /\ remembered' \in {remembered, "none"}
    /\ out' = {Note("cleared", TRUE, "handleClearAll")}
    /\ UNCHANGED <<session, ltimers>>
    /\ StorageQuiet

\* what must not be stored or logged unencrypted
Secrets == {"mnemonic", "private_key", "pin"}

\* popup: create (or restore) a wallet when none is stored: the mnemonic
\* (generated, or as typed in) and the address are logged, the account is
\* saved with its private key encrypted under the PIN
CreateWallet ==
    /\ ~vault.exists
    /\ vault' = NewVault({"evm"}, FALSE)
    /\ out' = {Note("log", TRUE, "mnemonic"), Note("log", TRUE, "address"),
               Note("persist", TRUE, "encrypted_private_key"),
               Note("persist", TRUE, "address")}
    /\ UNCHANGED <<session, ltimers, remembered>>
    /\ StorageQuiet

\* a caller awaits loadState() on the stored data
LoadState(now) ==
    /\ loaded = NotLoaded
    /\ loaded' = loadState(raw, now)
    /\ UNCHANGED <<session, vault, pend, unl, tasks, timers, out, ltimers,
                   remembered, raw, crypt, currentChainId, NETWORKS, cs>>

\* the caller saves the state it loaded: saveState(state)
SaveLoaded ==
    /\ loaded.result = "state"
    /\ raw' = saveState(raw, loaded.state)
    /\ loaded' = NotLoaded
    /\ UNCHANGED <<session, vault, pend, unl, tasks, timers, out, ltimers,
                   remembered, crypt, currentChainId, NETWORKS, cs>>

\* ---------------------------------------------------------------- spec
\* the steps of the router, for page requests of the methods M with the ids I
\* and approval responses bearing the ids R
RouterNext(M, I, R) ==
    \/ \E req \in M, id \in I, o \in Origins, valid \in BOOLEAN :
          PageRequest(req, id, o, valid)
    \/ \E t \in Tasks : PopupOpened(t)
    \/ \E t \in Tasks, created \in BOOLEAN : PromptOpened(t, created)
    \/ WalletUnlocked
    \/ \E r \in Tasks : ReplayLoad(r)
    \/ \E rid \in R, approved \in BOOLEAN, err \in UiErrors :
          ApprovalResponse(rid, approved, err)
    \/ \E t \in Tasks : ApprovedLoad(t)
    \/ \E t \in Tasks, ok \in BOOLEAN : ApprovedFinish(t, ok)
    \/ TimeoutFire

\* the steps of the session, for unlock attempts with the pins P
SessionNext(P) ==
    \/ \E pin \in P : Unlock(pin, 0)
    \/ LockNow
    \/ AutoLock
    \/ Suspend

\* the steps of the session with time passing, for the lock delays T
TimedSessionNext(P, T) ==
    \/ \E pin \in P, ttl \in T : Unlock(pin, ttl)
    \/ LockNow
    \/ AutoLock
    \/ Suspend
    \/ Tick
    \/ VisibilityHidden
    \/ \E ttl \in T : AttemptAutoUnlock(ttl)
    \/ \E ttl \in T : PopupInitialize(ttl)
    \/ \E pin \in P, rememberPin \in BOOLEAN, ttl \in T :
          PopupUnlock(pin, rememberPin, ttl)

\* every method that opens a prompt, one request id; approval responses bear
\* the id as the approval window got it (a string), or an id nobody uses
Next ==
    \/ RouterNext(PageMethods, {NumId("1")}, {StrId("1"), StrId("x")})
    \/ SessionNext({VaultPin})
    \/ CreateWallet

Spec == Init /\ [][Next]_vars

\* the two connect methods, one request id
NextConnect ==
    \/ RouterNext(ConnectRequests, {NumId("1")}, {StrId("1"), StrId("x")})
    \/ SessionNext({VaultPin})
    \/ CreateWallet

SpecConnect == Init /\ [][NextConnect]_vars

\* a wallet that was set up earlier; request ids of both types
InitIds == Init /\ vault.exists

NextIds ==
    \/ RouterNext({"eth_requestAccounts"}, Ids, {StrId("1")})
    \/ SessionNext({VaultPin})

SpecIds == InitIds /\ [][NextIds]_vars

\* a wallet that was set up earlier: connecting, then asking for the accounts
NextAccounts ==
    \/ RouterNext({"eth_requestAccounts", "eth_accounts"}, {NumId("1")},
                  {StrId("1")})
    \/ SessionNext({VaultPin})

SpecAccounts == InitIds /\ [][NextAccounts]_vars

\* two sites, each with its own request id, and a wallet that is unlocked and
\* stays so: connecting, revoking and asking for the accounts side by side
Senders == {[origin |-> "siteA", id |-> NumId("1")],
            [origin |-> "siteB", id |-> NumId("2")]}

InitOrigins ==
    /\ vault \in {NewVault({"evm", "sol"}, TRUE),
                  [NewVault({"evm", "sol"}, TRUE)
                      EXCEPT !.origins["siteA"] = "evm"]}
    /\ session = unlock(LockedSession, vault, VaultPin)
    /\ ltimers = setLockTimer(LockedSession, <<>>, MaxTtl)
    /\ pend = EmptyMap
    /\ unl = EmptyMap
    /\ tasks = [t \in Tasks |-> IdleTask]
    /\ timers = <<>>
    /\ out = {}
    /\ remembered = "none"
    /\ raw = NoRaw
    /\ loaded = NotLoaded
    /\ InitModule

NextOrigins ==
    \/ \E s \in Senders, valid \in BOOLEAN,
          req \in {"eth_requestAccounts", "eth_accounts",
                   "wallet_revokePermissions", "disconnect"} :
          PageRequest(req, s.id, s.origin, valid)
    \/ \E t \in Tasks, created \in BOOLEAN : PromptOpened(t, created)
    \/ \E rid \in {StrId("1"), StrId("2")}, approved \in BOOLEAN, err \in UiErrors :
          ApprovalResponse(rid, approved, err)
    \/ \E t \in Tasks : ApprovedLoad(t)
    \/ \E t \in Tasks, ok \in BOOLEAN : ApprovedFinish(t, ok)
    \/ \E t \in Tasks : RevokeFinish(t)
    \/ TimeoutFire

SpecOrigins == InitOrigins /\ [][NextOrigins]_vars

\* siteA, connected or not, signs and sends with request id 1 and revokes its
\* permission with request id 2; the wallet is unlocked and stays so
NextRevokeSign ==
    \/ \E req \in {"personal_sign", "eth_sendTransaction"}, valid \in BOOLEAN :
          PageRequest(req, NumId("1"), "siteA", valid)
    \/ \E valid \in BOOLEAN :
          PageRequest("wallet_revokePermissions", NumId("2"), "siteA", valid)
    \/ \E t \in Tasks, created \in BOOLEAN : PromptOpened(t, created)
    \/ \E approved \in BOOLEAN, err \in UiErrors :
          ApprovalResponse(StrId("1"), approved, err)
    \/ \E t \in Tasks : ApprovedLoad(t)
    \/ \E t \in Tasks, ok \in BOOLEAN : ApprovedFinish(t, ok)
    \/ \E t \in Tasks : RevokeFinish(t)
    \/ TimeoutFire

SpecRevokeSign == InitOrigins /\ [][NextRevokeSign]_vars

\* siteA connects on both chains and asks for its accounts; nothing is
\* revoked; the wallet is unlocked and stays so
NextChains ==
    \/ \E req \in {"eth_requestAccounts", "connect", "eth_accounts"},
          valid \in BOOLEAN :
          PageRequest(req, NumId("1"), "siteA", valid)
    \/ \E t \in Tasks, created \in BOOLEAN : PromptOpened(t, created)
    \/ \E approved \in BOOLEAN, err \in UiErrors :
          ApprovalResponse(StrId("1"), approved, err)
    \/ \E t \in Tasks : ApprovedLoad(t)
    \/ \E t \in Tasks, ok \in BOOLEAN : ApprovedFinish(t, ok)
    \/ TimeoutFire

SpecChains == InitOrigins /\ [][NextChains]_vars

\* loadState applied to stored data of every shape; the router and the
\* session play no part
InitLoad ==
    /\ InitWorker
    /\ vault = NoVault
    /\ remembered = "none"
    /\ raw \in {NoRaw} \cup RawStates
    /\ loaded = NotLoaded
    /\ InitModule

NextLoad == \E now \in Now : LoadState(now)

SpecLoad == InitLoad /\ [][NextLoad]_vars

\* stored states that pass validateState, of every version, with entries in
\* origins, timestamps there or not, and fields the wallet does not know
MigrateStates ==
    {r \in [present : {TRUE}, kind : {"object"}, origins : {"map"},
            perms : SeqsUpTo(StoredPermissions, MaxPerms), extra : BOOLEAN,
            accounts : {"array"},
            list : SeqsUpTo(StoredAccounts, MaxAccounts),
            ctype : {"number"}, createdAt : {1},
            version : {"missing", "0.9.0", CURRENT_VERSION}] :
        validateState(r) = "none"}

\* loading, saving what was loaded, loading again
InitMigrate ==
    /\ InitWorker
    /\ vault = NoVault
    /\ remembered = "none"
    /\ raw \in MigrateStates
    /\ loaded = NotLoaded
    /\ InitModule

NextMigrate ==
    \/ \E now \in Now : LoadState(now)
    \/ SaveLoaded

SpecMigrate == InitMigrate /\ [][NextMigrate]_vars

\* one site and a wallet that is unlocked and stays so: every signing method
NextSign ==
    \/ \E req \in SignRequests, valid \in BOOLEAN :
          PageRequest(req, NumId("1"), "siteA", valid)
    \/ \E t \in Tasks, created \in BOOLEAN : PromptOpened(t, created)
    \/ \E approved \in BOOLEAN, err \in UiErrors :
          ApprovalResponse(StrId("1"), approved, err)
    \/ \E t \in Tasks : ApprovedLoad(t)
    \/ \E t \in Tasks, ok \in BOOLEAN : ApprovedFinish(t, ok)
    \/ TimeoutFire

SpecSign == InitOrigins /\ [][NextSign]_vars

\* the methods that sign or send
SigningMethods == SignRequests \cup {"eth_sendTransaction"}

\* sign and send requests of siteA, which is connected or is not, to a
\* wallet that is unlocked and stays so
NextSend ==
    \/ \E req \in SigningMethods, valid \in BOOLEAN :
          PageRequest(req, NumId("1"), "siteA", valid)
    \/ \E t \in Tasks, created \in BOOLEAN : PromptOpened(t, created)
    \/ \E approved \in BOOLEAN, err \in UiErrors :
          ApprovalResponse(StrId("1"), approved, err)
    \/ \E t \in Tasks : ApprovedLoad(t)
    \/ \E t \in Tasks, ok \in BOOLEAN : ApprovedFinish(t, ok)
    \/ TimeoutFire

SpecSend == InitOrigins /\ [][NextSend]_vars

\* a wallet that was set up earlier, with storage that may fail to load
NextErrors ==
    \/ RouterNext({"eth_requestAccounts", "personal_sign"}, {NumId("1")},
                  {StrId("1")})
    \/ SessionNext({VaultPin})
    \/ \E req \in {"eth_requestAccounts", "eth_accounts", "personal_sign",
                    "wallet_revokePermissions", "connect"} :
          PageRequestLoadFails(req, NumId("1"), "siteA")

SpecErrors == InitIds /\ [][NextErrors]_vars

\* the crypto calls alone: a value is encrypted under a PIN and the result
\* decrypted under the same or another PIN
NextCrypto ==
    \/ \E x \in Values, pin \in CryptoPins, salt \in Salts, iv \in IVs :
          EncryptJSON(x, pin, salt, iv)
    \/ \E pin \in CryptoPins : DecryptJSON(pin)

SpecCrypto == InitIds /\ [][NextCrypto]_vars

\* the chain requests of one page: switching, adding, asking
ChainParams == ChainIds \cup {"missing"}

NextChain ==
    \/ \E id \in BridgeIds, c \in ChainParams :
          SwitchEthereumChain(id, "siteA", c)
    \/ \E id \in BridgeIds, c \in ChainParams, rpcUrl \in BOOLEAN :
          AddEthereumChain(id, "siteA", c, rpcUrl)
    \/ \E id \in BridgeIds : EthChainId(id, "siteA")

SpecChain == InitIds /\ [][NextChain]_vars

\* siteA, connected, sends transactions with request id 1, with a chain id of
\* their own or without; between transactions the chain is switched and
\* chains are added with request id 2; the wallet is unlocked and stays so
NextSendChain ==
    \/ \E valid \in BOOLEAN :
          PageRequest("eth_sendTransaction", NumId("1"), "siteA", valid)
    \/ \E t \in Tasks, created \in BOOLEAN : PromptOpened(t, created)
    \/ \E approved \in BOOLEAN, err \in UiErrors :
          ApprovalResponse(StrId("1"), approved, err)
    \/ \E t \in Tasks : ApprovedLoad(t)
    \/ \E t \in Tasks, txChainId \in {"missing", "0x1", "0x64"}, sent \in BOOLEAN :
          ApprovedTransaction(t, txChainId, sent)
    \/ TimeoutFire
    \/ \E c \in ChainParams :
          (\A t \in Tasks : ~InHandler(tasks[t]))
              /\ SwitchEthereumChain(NumId("2"), "siteA", c)
    \/ \E c \in ChainParams, rpcUrl \in BOOLEAN :
          (\A t \in Tasks : ~InHandler(tasks[t]))
              /\ AddEthereumChain(NumId("2"), "siteA", c, rpcUrl)

SpecSendChain == InitOrigins /\ [][NextSendChain]_vars

\* two sites behind the content script, each with its own request id, and a
\* wallet that is unlocked and stays so, nothing connected yet; only the
\* page at siteA asks for a connection, the page at siteB asks for the
\* accounts and for a signature
InitSites == InitOrigins /\ vault.origins = EmptyOrigins

NextSites ==
    \/ \E s \in Senders, valid \in BOOLEAN,
          req \in {"eth_requestAccounts", "eth_accounts", "personal_sign"} :
          /\ (req = "eth_requestAccounts") = (s.origin = "siteA")
          /\ InpageRequest(req, s.id, s.origin, valid)
    \/ \E t \in Tasks, created \in BOOLEAN : PromptOpened(t, created)
    \/ \E rid \in {StrId("1"), StrId("2")}, approved \in BOOLEAN, err \in UiErrors :
          ApprovalResponse(rid, approved, err)
    \/ \E t \in Tasks : ApprovedLoad(t)
    \/ \E t \in Tasks, ok \in BOOLEAN : ApprovedFinish(t, ok)
    \/ TimeoutFire

SpecSites == InitSites /\ [][NextSites]_vars

\* a page behind the content script, which connects and sends with request
\* ids it uses once; the wallet is unlocked and stays so; what the worker
\* posts reaches the content script before anything else happens
NextBridge ==
    \/ \E req \in {"eth_requestAccounts", "eth_sendTransaction"},
          id \in BridgeIds, valid \in BOOLEAN :
          HandleInpageMessage(req, id, "siteA", valid)
    \/ HandleBackgroundResponse
    \/ \E id \in BridgeIds : RequestTimeout(id)
    \/ \E t \in Tasks, created \in BOOLEAN : Delivered /\ PromptOpened(t, created)
    \/ \E rid \in {StrId("1"), StrId("2")}, approved \in BOOLEAN, err \in UiErrors :
          Delivered /\ ApprovalResponse(rid, approved, err)
    \/ \E t \in Tasks : Delivered /\ ApprovedLoad(t)
    \/ \E t \in Tasks, ok \in BOOLEAN : Delivered /\ ApprovedFinish(t, ok)
    \/ Delivered /\ TimeoutFire

SpecBridge == InitSites /\ [][NextBridge]_vars

\* the session and the storage alone: unlocks with either pin, lock delays up
\* to MaxTtl, a remembered PIN that may be stale, wallets created and erased
InitSession ==
    /\ InitWorker
    /\ remembered \in {"none"} \cup Pins
    /\ raw = NoRaw
    /\ loaded = NotLoaded
    /\ InitModule

NextSession ==
    \/ TimedSessionNext(Pins, 1..MaxTtl)
    \/ CreateWallet
    \/ ClearAllData
    \/ SettingsClearAll

SpecSession == InitSession /\ [][NextSession]_vars

TypeOK ==
    /\ session.unlocked \in BOOLEAN
    /\ DOMAIN pend \subseteq Ids \cup {s.id : s \in Senders}
    /\ DOMAIN unl \subseteq Ids \cup {s.id : s \in Senders}
    /\ \A k \in DOMAIN pend : pend[k].owner \in Tasks

\* ================================================================ claims

\* a step in which the session goes from Unlocked to Locked through lockNow
LockStep == isUnlocked /\ session' = lockNow(session)

\* C1: whenever the session becomes Locked through lockNow (explicit lock,
\* auto-lock timer, suspend), every outstanding PendingRequest is rejected and
\* removed: right after the lock pendingRequests holds no entry.
C1_LockRejectsAll == [][LockStep => DOMAIN pend' = {}]_vars

\* a page caller that nothing can settle any more: it awaits its promise, its
\* timer is gone, no approved handler runs for it and pendingRequests holds no
\* entry with its resolve/reject
Abandoned(t) ==
    /\ tasks[t].kind = "page"
    /\ tasks[t].pc = "await"
    /\ ~TimerArmed(timers, t)
    /\ ~InHandler(tasks[t])
    /\ \A k \in DOMAIN pend : pend[k].owner # t

\* C2: every registered PendingRequest is settled exactly once: no caller is
\* left that can never be settled, and resolve/reject is never invoked on a
\* promise that is already settled.
C2_SettledExactlyOnce ==
    /\ \A t \in Tasks : ~Abandoned(t)
    /\ \A e \in out : e.kind # "resettle"

\* C3: when the replay started by a WALLET_UNLOCKED signal that arrived with
\* the session Unlocked ends with the granted account's address (at once, or
\* after the replayed connection prompt is approved), the original caller of
\* that id is answered: no page request queued under that id still waits.
C3_ReplayAnswersCaller ==
    \A e \in out :
        (e.kind = "replayed" /\ e.ok /\ e.sig = "unlocked"
            /\ e.tkind # "locked") =>
            \A t \in Tasks :
                ~(/\ tasks[t].kind = "page"
                  /\ tasks[t].pc = "await"
                  /\ tasks[t].tkind = "locked"
                  /\ tasks[t].id = e.id
                  /\ tasks[t].origin = e.origin)

\* C4: no approved action (connection grant, signature, transaction) takes
\* effect while the session is Locked.
C4_NoEffectWhileLocked ==
    \A e \in out : e.kind = "effect" => e.ok

\* a second APPROVAL_RESPONSE for rid, arriving now, would do nothing but
\* answer 'Request not found'
SecondIsNoOp(rid) ==
    \A a \in BOOLEAN, err \in UiErrors :
        LET W == ApprovalBody(Here, rid, a, err)
        IN  /\ W.pend = pend
            /\ W.tasks = tasks
            /\ W.unl = unl
            /\ W.out = {Reply(rid, FALSE)}

\* C5: of two APPROVAL_RESPONSE messages bearing the same requestId only the
\* first is honoured: right after a response for an id has found and settled
\* an entry, a second response bearing that id finds no entry, settles nobody,
\* starts no handler and changes nothing.
C5_SecondResponseNoOp ==
    [][\A rid \in Ids, a \in BOOLEAN, err \in UiErrors :
          (ApprovalResponse(rid, a, err) /\ LookupKey(pend, rid) # NoKey)
              => SecondIsNoOp(rid)']_vars

\* no entry of pendingRequests is stored under rid, in either type
Unknown(rid) == \A k \in DOMAIN pend : k.text # rid.text

C7_NoOverwrite ==
    [][\A k \in (DOMAIN pend) \cap (DOMAIN pend') :
          pend'[k].owner # pend[k].owner => tasks[pend[k].owner].pc = "done"]_vars

\* C8: no entry outlives its 5 minute timer (the timer of an entry's caller is
\* armed for as long as the entry is in the map), and a timer that fires and
\* removes an entry rejects that entry's caller: the caller of the removed
\* entry no longer waits.
C8_TimeoutEndsItsRequest ==
    [][/\ \A k \in DOMAIN pend' : TimerArmed(timers', pend'[k].owner)
       /\ \A k \in DOMAIN pend :
              (TimeoutFire /\ k \notin DOMAIN pend')
                  => tasks'[pend[k].owner].pc # "await"]_vars

\* C9: a caller whose request is ended by its timeout is rejected with a code
\* other than USER_REJECTED (4001).
C9_TimeoutCodeDedicated ==
    \A e \in out :
        (e.kind = "response" /\ e.by = "timeout") => e.code # USER_REJECTED

\* C10: a connect request (eth_requestAccounts, wallet_requestPermissions) that
\* arrives while no vault is stored is answered with the needs-setup error, and
\* pendingRequests and pendingUnlockRequests stay as they are.
C10_NoVaultNeedsSetup ==
    [][\A req \in ConnectRequests, id \in Ids, o \in Origins, valid \in BOOLEAN :
          (~vault.exists /\ PageRequest(req, id, o, valid))
              => /\ pend' = pend
                 /\ unl' = unl
                 /\ \E e \in out' :
                        /\ e.kind = "response" /\ e.req = req /\ e.id = id
                        /\ ~e.ok /\ e.code = UNAUTHORIZED
                        /\ e.msg = "needs_setup"]_vars

\* wallet_requestPermissions was just answered needs-setup, no vault stored
C10_Witness ==
    /\ ~vault.exists
    /\ \E e \in out :
           /\ e.kind = "response" /\ e.req = "wallet_requestPermissions"
           /\ e.msg = "needs_setup" /\ e.code = UNAUTHORIZED

\* C11: with a vault stored, no privileged request (personal_sign,
\* eth_sendTransaction, connect, ...) is answered with the wallet-is-locked
\* error: a request that arrives while Locked is queued for unlock instead.
C11_LockedRequestsQueued ==
    vault.exists =>
        \A e \in out : e.kind = "response" => e.msg # "locked"

\* C12: for every stored vault, with or without a mnemonic field, unlock(pin)
\* called while Locked unlocks with the vault's PIN, and with any other PIN
\* leaves the session Locked with no pin and no lock timer and raises
\* INVALID_PIN.
C12_UnlockChecksPin ==
    [][\A pin \in Pins, ttl \in 1..MaxTtl :
          (vault.exists /\ ~isUnlocked /\ Unlock(pin, ttl))
              => IF pin = VaultPin
                 THEN SessionUnlocked(session')
                 ELSE /\ session' = LockedSession
                      /\ ltimers' = <<>>
                      /\ unlockRaises(vault, pin) = "INVALID_PIN"]_vars

\* C13: the connected-account lookup answers eth_accounts and
\* wallet_getPermissions with an account only for an origin whose permission
\* is allowed and only while the session is Unlocked; while Locked the answer
\* is the empty list for every origin.
C13_LockedLookupReturnsNothing ==
    \A e \in out :
        (e.kind = "response" /\ e.req \in AccountMethods /\ e.msg # "empty")
            => /\ vault.exists
               /\ vault.origins[e.origin] # NoPerm
               /\ isUnlocked

\* C14: a revoke that completes (wallet_revokePermissions carrying
\* eth_accounts, or the Solana disconnect) leaves no entry for the origin in
\* the persisted origins map; from then on the entry comes back only when a
\* connection for that origin is approved, and while there is no entry
\* eth_accounts from the origin is answered with the empty list.
C14_RevokedStaysRevoked ==
    [][/\ \A e \in out' :
            (e.kind = "response" /\ e.req \in RevokeMethods /\ e.msg = "revoked")
                => vault'.origins[e.origin] = NoPerm
       /\ \A o \in AllOrigins :
            (/\ vault.exists /\ vault'.exists
             /\ vault.origins[o] = NoPerm /\ vault'.origins[o] # NoPerm)
                => \E e \in out' :
                      e.kind = "effect" /\ e.msg = "grant" /\ e.origin = o
       /\ \A e \in out' :
            (/\ e.kind = "response" /\ e.req = "eth_accounts"
             /\ vault.exists /\ vault.origins[e.origin] = NoPerm)
                => e.msg = "empty"]_vars

\* C15: concurrent vault mutations lose no update: when a grant or a revoke
\* for one origin is saved while another mutation for a different origin is
\* in flight, the save leaves every other origin's persisted entry as it is,
\* so that after both complete the persisted state has the effect of both.
C15_NoLostUpdate ==
    [][\A e \in out' :
          (\/ e.kind = "effect" /\ e.msg = "grant"
           \/ e.kind = "response" /\ e.req \in RevokeMethods /\ e.msg = "revoked")
              => \A o \in AllOrigins \ {e.origin} :
                    vault'.origins[o] = vault.origins[o]]_vars

\* C16: the visibility-hidden signal only shrinks the session: arriving while
\* Unlocked it leaves one auto-lock timer whose remaining time is the
\* minimum of the time that remained and the 30-second grace window, so an
\* auto-lock that was due sooner is not postponed; arriving while Locked it
\* changes nothing.
C16_HiddenOnlyShrinks ==
    [][\A e \in out' :
          e.kind = "hidden"
              => IF isUnlocked
                 THEN /\ ltimers # <<>>
                      /\ ltimers' = <<IF ltimers[Len(ltimers)] < Grace
                                      THEN ltimers[Len(ltimers)] ELSE Grace>>
                      /\ session' = session
                 ELSE session' = session /\ ltimers' = ltimers]_vars

\* C17: in every reachable state the session is Unlocked only if an in-memory
\* PIN is held and exactly one auto-lock timer is armed, and a Locked session
\* holds no PIN and has no timer armed (so a repeated unlock or extend has
\* replaced the timer, never added one); a step in which the timer fires or
\* the suspend signal arrives leaves the session Locked with the PIN cleared
\* and no timer armed.
C17_OneTimerWhileUnlocked ==
    /\ [](IF session.unlocked
           THEN /\ session.pin # "none"
                /\ session.lockTimer = "armed"
                /\ Len(ltimers) = 1
           ELSE session = LockedSession /\ ltimers = <<>>)
    /\ [][(AutoLock \/ Suspend)
              => session' = LockedSession /\ ltimers' = <<>>]_vars

\* the timer was replaced while Unlocked: one timer, the grace window
C17_Witness ==
    /\ \E e \in out : e.kind = "hidden" /\ e.ok
    /\ isUnlocked
    /\ ltimers = <<Grace>>

\* C18: when an automatic unlock with the remembered PIN fails, at the start
\* of the background worker (attemptAutoUnlock) or when the popup initialises,
\* the remembered-PIN blob is absent from storage afterwards.
C18_FailedAutoUnlockForgetsPin ==
    \A e \in out :
        (e.kind \in {"auto_unlock", "popup_unlock"} /\ ~e.ok)
            => remembered = "none"

\* C19: every operation that erases the persisted vault (clearAllData, the
\* settings page's Clear All Data) leaves the session Locked with no
\* in-memory PIN and no armed lock timer, and nothing stored for a following
\* loadState to return.
C19_ClearLocksSession ==
    \A e \in out :
        e.kind = "cleared"
            => /\ session = LockedSession
               /\ ltimers = <<>>
               /\ ~vault.exists

\* the schema: accounts is an array, origins is a map, createdAt > 0, every
\* account has id, chain, address and enc
SchemaOK(s) ==
    /\ s.kind = "object"
    /\ s.origins = "map"
    /\ s.accounts = "array"
    /\ s.ctype = "number" /\ s.createdAt > 0
    /\ \A i \in 1..Len(s.list) :
          s.list[i].id /\ s.list[i].chain /\ s.list[i].address /\ s.list[i].enc

\* C20: loadState never returns a state that violates the schema, and for
\* stored data that misses any part of it (an account without enc in a state
\* at the current version included) it raises an error instead of returning
\* the data.
C20_LoadStateValidates ==
    /\ loaded.result = "state" => SchemaOK(loaded.state)
    /\ (loaded # NotLoaded /\ raw.present /\ ~SchemaOK(raw))
          => loaded.result = "raise"

\* C21: state migration is idempotent: migrating the state that loadState
\* returned after a migration gives that state again, whatever the time; and
\* a stored state already tagged with the current version is returned by
\* loadState unchanged.
C21_MigrationIdempotent ==
    /\ (loaded.result = "state" /\ NeedsMigration(raw))
          => \A now \in Now : migrateState(loaded.state, now) = loaded.state
    /\ (loaded.result = "state" /\ raw.version = CURRENT_VERSION)
          => loaded.state = raw

\* a migration that filled in a timestamp of an origins entry
C21_Witness ==
    /\ loaded.result = "state"
    /\ NeedsMigration(raw)
    /\ \E i \in 1..Len(raw.perms) :
          raw.perms[i].lastUsed = 0 /\ loaded.state.perms[i].lastUsed \in Now

\* C22: when the handler run for an approved PendingRequest throws, the
\* request's caller is rejected with the internal-error code -32603 (a page
\* is answered with it, at once or through the replay that awaited the
\* handler), no entry of pendingRequests belongs to that request any more,
\* and the request leaves the router able to serve the next one.
C22_HandlerErrorRejectsCaller ==
    [][\A e \in out' :
          (e.by = "handler" /\ ~e.ok /\ e.kind # "effect")
              => /\ e.kind # "resettle"
                 /\ e.code = INTERNAL_ERROR
                 /\ e.kind = "replayed"
                       => \E r \in out' :
                             /\ r.kind = "response" /\ r.id = e.id
                             /\ r.by = "replay" /\ r.code = INTERNAL_ERROR
                 /\ \A t \in Tasks :
                       (tasks[t].id = e.id /\ InHandler(tasks[t])
                        /\ ~InHandler(tasks'[t]))
                           => /\ tasks'[t].pc \in {"idle", "done"}
                              /\ \A k \in DOMAIN pend' : pend'[k].owner # t]_vars

\* C23: an APPROVAL_RESPONSE with approved = false for an outstanding
\* PendingRequest rejects the caller with USER_REJECTED (4001), removes the
\* entry, runs no method handler, and leaves the persisted vault unchanged.
C23_RejectionIsUserRejected ==
    [][\A e \in out' :
          (e.kind = "approval_reply" /\ e.ok)
              => \A err \in UiErrors :
                    ApprovalResponse(e.id, FALSE, err)
                        => /\ \E r \in out' :
                                 /\ r.kind = "response"
                                 /\ r.id = LookupKey(pend, e.id)
                                 /\ ~r.ok /\ r.code = USER_REJECTED
                           /\ LookupKey(pend, e.id) \notin DOMAIN pend'
                           /\ \A t \in Tasks : ~InHandler(tasks[t])
                                                  => ~InHandler(tasks'[t])
                           /\ \A r \in out' : r.kind # "effect"
                           /\ vault' = vault]_vars

\* C24: an approved signing request of any method for which a PendingRequest
\* can be created (personal_sign, eth_sign, eth_signTypedData and its v3 and
\* v4) resolves with the signature of the router's decrypt-and-sign handler,
\* never with the result field that the approval response supplied.
C24_SignatureFromHandler ==
    \A e \in out :
        (e.kind = "response" /\ e.req \in SignRequests /\ e.ok)
            => e.msg = "signature"

\* C25: every error response delivered for a page request carries a numeric
\* code and a string message, whatever raised the error, errors thrown by the
\* vault (KeystoreError from loadState) and by a handler before a
\* PendingRequest was created included.
C25_ErrorCodeNumeric ==
    \A e \in out :
        (e.kind = "response" /\ ~e.ok) => e.ctype = "number"

\* C26: no plaintext secret (mnemonic, private key or PIN) is written to
\* persistent storage or to the log by a wallet operation; what is persisted
\* or logged is ciphertext and public data.
C26_NoPlaintextSecret ==
    \A e \in out :
        e.kind \in {"log", "persist"} => e.msg \notin Secrets

\* the site whose page uses the request id
SiteOf(id) == (CHOOSE s \in Senders : s.id = id).origin

\* C27: connection grants are per requesting site: when only siteA asks for
\* a connection, a page at siteB is never treated as connected, whatever was
\* approved for siteA: its eth_accounts is answered with no account and its
\* sign request is refused before any approval prompt.
C27_GrantsPerSite ==
    /\ \A e \in out :
          (e.kind = "response" /\ e.req = "eth_accounts" /\ SiteOf(e.id) = "siteB")
              => e.msg = "empty"
    /\ \A t \in Tasks :
          (tasks[t].req \in SignRequests /\ tasks[t].kind = "page"
             /\ SiteOf(tasks[t].id) = "siteB")
              => tasks[t].pc \notin {"prompt", "await"}

\* a PIN deriveKey accepts
ValidPin(pin) == pin # "" /\ Len(pin) >= MinPinLength

\* encryptJSON(x, p) was decrypted, x a JSON value and p a valid PIN
RoundTrip ==
    /\ crypt.call = "decrypted"
    /\ crypt.x \in JsonValues
    /\ ValidPin(crypt.pin)

C29_SwitchChain ==
    [][/\ \A id \in BridgeIds, c \in ChainParams :
            SwitchEthereumChain(id, "siteA", c) =>
                IF c \in NETWORKS
                THEN currentChainId' = c /\ \A e \in out' : e.ok
                ELSE /\ currentChainId' = currentChainId
                     /\ \A e \in out' : ~e.ok /\ e.code = UNRECOGNIZED_CHAIN
       /\ \A e \in out' : e.req = "eth_chainId" =>
            e.ok /\ e.msg = currentChainId /\ currentChainId' = currentChainId
       /\ currentChainId' # currentChainId =>
            \E e \in out' : e.req = "wallet_switchEthereumChain" /\ e.ok]_vars

\* the approval window of call t has been asked for (chrome.windows.create
\* was called with the id in its url) and the call has not come back yet
PromptSurfaced(t, rid) ==
    /\ tasks[t].pc = "prompt"
    /\ tasks[t].id.text = rid.text

\* C30: the PendingRequest is registered before its approval prompt is
\* surfaced: an approval response that arrives while the prompt of its id is
\* open finds the entry, it is never answered 'Request not found'.
C30_RegisteredBeforePrompt ==
    [][\A e \in out' :
          (e.kind = "approval_reply" /\ \E t \in Tasks : PromptSurfaced(t, e.id))
              => e.ok]_vars

\* C31: a sign or send request from an origin that holds no allowed grant,
\* received while Unlocked, is rejected at once with the unauthorized error:
\* its answer is error 4100, no approval prompt is opened for it and no
\* PendingRequest is created.
C31_NotConnectedRejected ==
    (isUnlocked /\ vault.origins["siteA"] = NoPerm) =>
        /\ \A e \in out :
              (e.kind = "response" /\ e.req \in SigningMethods)
                  => ~e.ok /\ e.code = UNAUTHORIZED
        /\ \A t \in Tasks :
              tasks[t].req \in SigningMethods => tasks[t].pc \notin {"prompt", "await"}
        /\ DOMAIN pend = {}

C31_Witness ==
    /\ isUnlocked
    /\ vault.origins["siteA"] = NoPerm
    /\ \E e \in out : /\ e.kind = "response"
                        /\ e.req = "eth_sendTransaction"
                        /\ e.msg = "not_connected"

\* C32: a timeout timer armed for one PendingRequest only ever removes and
\* rejects that same request: when the timer of a call fires whose request
\* was settled earlier, every entry of pendingRequests that a later call
\* registered is still there afterwards, also one registered under the same
\* id.
C32_TimerRemovesOwnEntryOnly ==
    [][(TimeoutFire /\ tasks[Head(timers)].pc = "done") =>
          \A k \in DOMAIN pend :
              pend[k].owner # Head(timers) => k \in DOMAIN pend']_vars

\* the approval prompt of call t is open: the call awaits its registered
\* promise. The prompt's url carries String(id), so the text of the id is all
\* its answer can name
PromptOpen(t) ==
    /\ tasks[t].pc = "await"
    /\ tasks[t].tkind = "normal"
    /\ \E k \in DOMAIN pend : pend[k].owner = t

\* C33: an approval response settles only the PendingRequest whose prompt it
\* answers: when a response is accepted, the entry it settles belongs to every
\* open prompt that carries the id of the response, so never to another
\* request whose id differs only in type or that another page sent.
C33_ResponseSettlesItsRequest ==
    [][\A e \in out' :
          (e.kind = "approval_reply" /\ e.ok) =>
              \A t \in Tasks :
                  (PromptOpen(t) /\ tasks[t].id.text = e.id.text)
                      => pend[LookupKey(pend, e.id)].owner = t]_vars

\* C34: a signature or transaction is produced for an origin only if that
\* origin still holds an allowed grant at the moment the approval is
\* processed: when an approval for a sign or send request is accepted while
\* the stored state has no grant for the request's origin (it was revoked
\* while the prompt was open), the approved handler is not started.
C34_RevokedOriginNotSigned ==
    [][\A e \in out' :
          (/\ e.kind = "approval_reply"
           /\ e.ok
           /\ pend[LookupKey(pend, e.id)].method \in SigningMethods
           /\ vault.origins[pend[LookupKey(pend, e.id)].origin] = NoPerm)
              => ~InHandler(tasks'[pend[LookupKey(pend, e.id)].owner])]_vars

\* C35: connection grants of different chains for one origin do not clobber
\* each other: while nothing is revoked, an origin whose eth_accounts returns
\* the EVM address keeps it when a Solana connect is approved, and an origin
\* connected for Solana signing stays so when an EVM connection is approved.
C35_GrantsOfChainsCoexist ==
    [][\A o \in Origins :
          /\ getConnectedAccount(vault, o) = "evm"
                => getConnectedAccount(vault', o) = "evm"
          /\ getConnectedSolanaAccount(vault, o) = "sol"
                => getConnectedSolanaAccount(vault', o) = "sol"]_vars

\* C36: once the page-side caller of a request has been answered with an
\* error by the content script (its 30 second timeout), the background never
\* afterwards executes that request's approved handler: no permission is
\* granted and no transaction is sent for a request the page has seen fail.
C36_NoHandlerAfterPageError ==
    \A e \in out : e.kind = "effect" => e.id \notin cs.failed

\* C37: for every request id, the content script forwards at most one
\* response to the page: after it has sent a timeout error for an id, a later
\* background response for the same id is not forwarded.
C37_OneResponsePerId ==
    \A id \in BridgeIds : cs.forwarded[id] <= 1

\* C38: every chain id that wallet_switchEthereumChain accepts as the current
\* chain is a chain on which an approved eth_sendTransaction can be executed:
\* the handler of a transaction that names no chain of its own never fails
\* with 'Unsupported chain ID'.
C38_CurrentChainSupported ==
    \A e \in out :
        (e.kind = "response" /\ e.req = "eth_sendTransaction")
            => e.msg # "unsupported_current_chain"

====
